---- MODULE Spec2Model ----
(***************************************************************************)
(* Model of the multi-agent wealth advisory system:                        *)
(*   - FinancialAdvisoryOrchestrator.comprehensive_analysis, the six agent *)
(*     methods it calls, BaseFinancialAgent.execute_task and the episodic  *)
(*     logging path through EpisodicMemoryWrapper;                         *)
(*   - the semantic memory store (create / get / update with archive).     *)
(***************************************************************************)
EXTENDS Integers, Sequences, FiniteSets, TLC

(***************************************************************************)
(* Bounds of the model                                                     *)
(***************************************************************************)
MaxRuns == 2
MaxSemanticCalls == 4
MaxEvents == 2
MaxRetrievals == 2
MaxProcedures == 2
MaxExecutions == 3

(***************************************************************************)
(* Program constants                                                       *)
(***************************************************************************)
MaxAttempts == 3
NumPhases == 6
InitialVersion == 1
NumCandidates == 50
DecayDays == 30

None == "None"
ClientIds == {"client_101", "client_102"}
MemoryTypes == {"profile"}
DataValues == {"d1", "d2"}

(***************************************************************************)
(* The six phases of comprehensive_analysis, in program order.             *)
(***************************************************************************)
\* the agent_source strings the orchestrator passes for each phase
AgentSource ==
  <<"market_researcher", "risk_assessor", "portfolio_manager",
    "financial_planner", "tax_optimizer", "compliance_officer">>

\* the name each agent was constructed with (self.name)
AgentName ==
  <<"Market Research Analyst", "Risk Assessment Specialist", "Portfolio Manager",
    "Financial Planning Specialist", "Tax Optimization Specialist", "Compliance Officer">>

\* results[...] key assigned by each phase
ResultKey ==
  <<"market_research", "risk_assessment", "portfolio_analysis",
    "financial_plan", "tax_optimization", "compliance_review">>

\* context[...] key assigned by each phase (phases 5 and 6 assign none)
ContextKey ==
  <<"market_analysis", "risk_profile", "portfolio_recommendations",
    "financial_plan", None, None>>

\* event_type the orchestrator passes to memory_hub.episodic.add_event
OrchEventType ==
  <<"market_analysis", "risk_assessment", "portfolio_analysis",
    "financial_planning", "tax_optimization", "compliance_review">>

\* event_type each agent passes in its own logging call
AgentEventType ==
  <<"market_research", "risk_assessment", "portfolio_analysis",
    "financial_plan", "tax_optimization", "compliance_review">>

InputKeys == {"client_profile", "client_portfolio", "client_goals", "tax_info"}

VARIABLES
  pc,                \* position of comprehensive_analysis: idle, running, returned, raised
  phase,             \* the phase about to run (1..6)
  client_id,         \* context['client_profile'].get('user_id') of the current run
  client_data,       \* the payload of the current run
  results,           \* the results dict
  context,           \* the context dict
  invoked,           \* agents invoked in the current run, in order
  result_writes,     \* how many times each results key has been assigned in this run
  context_writes,    \* how many times each context key has been assigned in this run
  episodic_memories, \* the episodic_memories collection
  run_start,         \* Len(episodic_memories) when the current run started
  runs,              \* number of runs started
  db_type,           \* what database_manager.mongo_db_manager is
  semantic_memories,          \* the semantic_memories collection
  semantic_memories_archive,  \* the semantic_memories_archive collection
  next_id,           \* next _id the store assigns
  sem_history,       \* log of the create/update calls made, in order
  et_call,           \* the last execute_task call: its inputs and what came out
  last_add,          \* the last episodic logging call: what failed, how it ended
  retrievals,        \* the retrieve_memories calls made since the last write
  timeline,          \* the last get_client_timeline call and its result
  final_recommendation, \* the recommendation handed to Compliance Review, once built
  orch_logging,      \* the orchestrator's own add_event call of the last phase run
  procedural_memories,  \* the procedural_memories collection
  proc_call,         \* the last call on the procedural store and how it ended
  pending,           \* per caller: the record_procedure_execution between read and update
  report_results,    \* the results dict handed to generate_report, in insertion order
  report,            \* the last report generated
  agent_call,        \* the last agent method called on its own, and what came out
  updaters           \* per caller: the update_semantic_memory call in progress

orch_vars == <<pc, phase, client_id, client_data, results, context, invoked,
               result_writes, context_writes, episodic_memories, run_start, runs, db_type,
               final_recommendation, orch_logging>>
sem_vars == <<semantic_memories, semantic_memories_archive, next_id, sem_history>>
exec_vars == <<et_call>>
epi_vars == <<last_add, retrievals, timeline>>
run_vars == <<pc, phase, client_id, client_data, results, context, invoked,
              result_writes, context_writes, run_start, runs, db_type,
              final_recommendation, orch_logging>>
proc_vars == <<procedural_memories, proc_call, pending>>
report_vars == <<report_results, report>>
agent_vars == <<agent_call>>
semrace_vars == <<updaters>>
Callers == {"a", "b"}
vars == <<pc, phase, client_id, client_data, results, context, invoked,
          result_writes, context_writes, episodic_memories, run_start, runs, db_type,
          semantic_memories, semantic_memories_archive, next_id, sem_history,
          et_call, last_add, retrievals, timeline, final_recommendation, orch_logging,
          procedural_memories, proc_call, pending, report_results, report, agent_call,
          updaters>>

\* the call records before any call is made
NoCall == [called |-> FALSE]

(***************************************************************************)
(* Dicts are functions from a finite set of keys.                          *)
(***************************************************************************)
EmptyDict == [k \in {} |-> None]

DictSet(d, k, v) == [x \in (DOMAIN d) \cup {k} |-> IF x = k THEN v ELSE d[x]]

Bump(cnt, k) == [cnt EXCEPT ![k] = @ + 1]

(***************************************************************************)
(* BaseFinancialAgent.execute_task                                         *)
(***************************************************************************)
GatewayResponses == {"text", "empty", "rate_limit", "transport_error"}

\* temperatures in tenths: the default 0.7 and the 0.3 of the empty-response retry
DefaultTemperature == 7
FallbackTemperature == 3

\* what one chat_completion call is given: how many times the fallback
\* instruction has been appended to messages[1]["content"], and the temperature
Request(amendments, temperature) ==
  [amendments |-> amendments, temperature |-> temperature]

\* the empty-response branch with the instruction appended only if it has
\* not been appended yet
OnEmptyResponse_amend_once(req) == Request(1, FallbackTemperature)

\* the empty-response branch (lines 119-121): the instruction is appended to
\* the current user prompt, whatever it already holds, and temperature = 0.3
OnEmptyResponse(req) == Request(req.amendments + 1, FallbackTemperature)

\* the retry loop with every failed call retried, whatever the error
RECURSIVE AttemptLoop_retry_all(_, _, _, _, _)
AttemptLoop_retry_all(attempts, sent, amendments, temperature, responses) ==
  IF attempts >= MaxAttempts
  THEN [result |-> "error", gateway_calls |-> Len(sent), raised |-> FALSE, sent |-> sent]
  ELSE LET now == Append(sent, Request(amendments, temperature))
           r == responses[Len(now)] IN
       CASE r = "text" ->
              [result |-> "text", gateway_calls |-> Len(now), raised |-> FALSE, sent |-> now]
         [] r = "empty" ->
              AttemptLoop_retry_all(attempts + 1, now,
                                    OnEmptyResponse(now[Len(now)]).amendments,
                                    OnEmptyResponse(now[Len(now)]).temperature, responses)
         [] OTHER ->
              AttemptLoop_retry_all(attempts + 1, now, amendments, temperature, responses)

\* the retry loop (lines 102-126): responses[i] is what the i-th
\* chat_completion call does; sent is the requests made so far
\*   text            returned
\*   rate_limit      ("429" / "rate limit" in the message) attempts += 1, continue
\*   empty           instruction appended, temperature = 0.3, attempts += 1, continue
\*   any other error break
RECURSIVE AttemptLoop(_, _, _, _, _)
AttemptLoop(attempts, sent, amendments, temperature, responses) ==
  IF attempts >= MaxAttempts
  THEN [result |-> "error", gateway_calls |-> Len(sent), raised |-> FALSE, sent |-> sent]
  ELSE LET now == Append(sent, Request(amendments, temperature))
           r == responses[Len(now)] IN
       CASE r = "text" ->
              [result |-> "text", gateway_calls |-> Len(now), raised |-> FALSE, sent |-> now]
         [] r = "rate_limit" ->
              AttemptLoop(attempts + 1, now, amendments, temperature, responses)
         [] r = "empty" ->
              AttemptLoop(attempts + 1, now, OnEmptyResponse(now[Len(now)]).amendments,
                          OnEmptyResponse(now[Len(now)]).temperature, responses)
         [] OTHER ->
              [result |-> "error", gateway_calls |-> Len(now), raised |-> FALSE, sent |-> now]

\* execute_task with the client set-up outside the try block
execute_task_setup_outside_try(max_tokens, setup_ok, responses) ==
  IF ~setup_ok
  THEN [result |-> None, gateway_calls |-> 0, raised |-> TRUE, sent |-> <<>>]
  ELSE IF max_tokens = "dict"
  THEN [result |-> "error", gateway_calls |-> 0, raised |-> FALSE, sent |-> <<>>]
  ELSE AttemptLoop(0, <<>>, 0, DefaultTemperature, responses)

\* max_tokens is "dict" when the caller passes a (non-empty) dict in the
\* second positional parameter, "int" for a number: int(dict) raises
\* TypeError, which the outer except turns into the in-band error string,
\* as it does a failure to import or construct the client (setup_ok false).
execute_task(max_tokens, setup_ok, responses) ==
  IF ~setup_ok
  THEN [result |-> "error", gateway_calls |-> 0, raised |-> FALSE, sent |-> <<>>]
  ELSE IF max_tokens = "dict"
  THEN [result |-> "error", gateway_calls |-> 0, raised |-> FALSE, sent |-> <<>>]
  ELSE AttemptLoop(0, <<>>, 0, DefaultTemperature, responses)

\* one call of execute_task on an agent, recorded with what it was given
MaxTokensKinds == {"int", "dict"}

ExecuteTask(max_tokens, setup_ok, responses) ==
  et_call' = [called |-> TRUE, max_tokens |-> max_tokens, setup_ok |-> setup_ok,
              responses |-> responses,
              out |-> execute_task(max_tokens, setup_ok, responses)]

(***************************************************************************)
(* EpisodicMemory (episodic_memory/episodic_memory.py) and the gateway     *)
(* functions it calls (ai_utils.py).  Texts, summaries and embedding       *)
(* vectors are drawn from small sets; timestamps are days.                 *)
(***************************************************************************)
Summaries == {"s1", "s2"}
Vectors == {"v1", "v2"}
QueryTexts == {"q1"}
Timestamps == {0, 30, 60}

\* datetime.utcnow() / $$NOW: the latest day of the model
Now == CHOOSE t \in Timestamps : \A u \in Timestamps : u <= t

\* the vector Voyage returns for a text
Embed(text) == IF text \in {"s1", "q1"} THEN "v1" ELSE "v2"

\* get_embedding: Voyage's vector; without an API key, or when the request
\* fails, a freshly drawn random vector of the same length (rnd)
get_embedding(text, outcome, rnd) == IF outcome = "ok" THEN Embed(text) ELSE rnd

\* what the gateway does during one add_event: the summary it writes (or
\* "fail" when chat_completion raises), tag extraction, the embedding
\* request, the random vector of the fallback, and the insert
GatewayOutcomes ==
  [summary : Summaries \cup {"fail"}, tags : {"ok", "fail"},
   embedding : {"ok", "fail"}, rnd : Vectors, insert_ok : BOOLEAN]

\* an optional argument: NotGiven for the default None, Given(x) otherwise
NotGiven == <<>>
Given(x) == <<x>>

\* EpisodicMemory.add_event: summarize_text and extract_tags are not
\* guarded, an exception of chat_completion leaves add_event before the
\* document is built; get_embedding falls back; insert_one may raise.
add_event(cid, transcript, agent_source, event_type, tags, timestamp, gw) ==
  IF gw.summary = "fail" THEN [raised |-> TRUE, docs |-> <<>>]
  ELSE IF tags = NotGiven /\ gw.tags = "fail" THEN [raised |-> TRUE, docs |-> <<>>]
  ELSE IF ~gw.insert_ok THEN [raised |-> TRUE, docs |-> <<>>]
  ELSE [raised |-> FALSE,
        docs |-> <<[client_id |-> cid,
                    agent_source |-> agent_source,
                    timestamp |-> IF timestamp = NotGiven THEN Now ELSE timestamp[1],
                    event_type |-> event_type,
                    event_summary |-> gw.summary,
                    full_transcript |-> transcript,
                    embedding |-> get_embedding(gw.summary, gw.embedding, gw.rnd),
                    tags |-> IF tags = NotGiven THEN <<"tag">> ELSE tags[1]]>>]

(***************************************************************************)
(* EpisodicMemory.retrieve_memories: the aggregation pipeline.             *)
(* Scores are in thousandths.                                              *)
(***************************************************************************)
\* cosine similarity of two vectors ($vectorSearch's ranking)
Similarity(u, v) == IF u = v THEN 1000 ELSE 800

\* $exp of a whole exponent <= 0
Exp(k) ==
  CASE k = 0 -> 1000
    [] k = -1 -> 368
    [] k = -2 -> 135
    [] OTHER -> 50

\* a field path such as "$score": the field's value, or null (NotGiven)
\* when the document has no such field
Field(doc, name) == IF name \in DOMAIN doc THEN Given(doc[name]) ELSE NotGiven

\* $multiply: null when an operand is null or missing
Multiply(a, b) == IF a = NotGiven \/ b = NotGiven THEN NotGiven ELSE Given(a[1] * b[1])

\* $sort compares null below every number
SortKey(x) == IF x = NotGiven THEN -1 ELSE x[1]

\* the sequences a descending sort with a limit may produce: the n
\* elements of S with the greatest keys, greatest first; elements with
\* equal keys in any order
TopSeqs(S, n, key) ==
  LET m == IF n < Cardinality(S) THEN n ELSE Cardinality(S)
  IN {q \in [1..m -> S] :
        /\ \A i, j \in 1..m : i < j => (q[i] # q[j] /\ key[q[i]] >= key[q[j]])
        /\ \A x \in S \ {q[i] : i \in 1..m} : \A i \in 1..m : key[q[i]] >= key[x]}

\* {"$vectorSearch": {..., "numCandidates": 50, "limit": top_k,
\*                    "filter": {"client_id": client_id}}}
VectorSearch(store, cid, query_embedding, top_k) ==
  LET matching == {i \in DOMAIN store : store[i].client_id = cid}
      sim == [i \in matching |-> Similarity(query_embedding, store[i].embedding)]
      nearest == TopSeqs(matching, NumCandidates, sim)
  IN UNION {TopSeqs({c[i] : i \in DOMAIN c}, top_k, sim) : c \in nearest}

\* the two $addFields stages: days_old, then
\* adjusted_score = $score * exp(-days_old / 30)
DaysOld(doc) == Now - doc.timestamp

AdjustedScoreField(doc) ==
  Multiply(Field(doc, "score"), Given(Exp(-(DaysOld(doc) \div DecayDays))))

\* retrieve_memories: every sequence the pipeline may return
retrieve_memories(store, cid, query_embedding, top_k) ==
  LET adjusted == [i \in DOMAIN store |-> SortKey(AdjustedScoreField(store[i]))]
  IN UNION {TopSeqs({v[i] : i \in DOMAIN v}, Len(v), adjusted) :
              v \in VectorSearch(store, cid, query_embedding, top_k)}

(***************************************************************************)
(* EpisodicMemory.get_client_timeline                                      *)
(***************************************************************************)
\* the filter with the end of the range excluded
TimelineFilter_end_excluded(doc, cid, start_date, end_date) ==
  /\ doc.client_id = cid
  /\ doc.timestamp >= start_date
  /\ doc.timestamp < end_date

\* {"client_id": client_id, "timestamp": {"$gte": start_date, "$lte": end_date}}
TimelineFilter(doc, cid, start_date, end_date) ==
  /\ doc.client_id = cid
  /\ doc.timestamp >= start_date
  /\ doc.timestamp <= end_date

\* find(...).sort("timestamp", 1): every sequence the query may return
get_client_timeline(store, cid, start_date, end_date) ==
  LET matching == {i \in DOMAIN store : TimelineFilter(store[i], cid, start_date, end_date)}
      earliest_first == [i \in DOMAIN store |-> 0 - store[i].timestamp]
  IN TopSeqs(matching, Cardinality(matching), earliest_first)

(***************************************************************************)
(* Episodic logging through the memory hub (memory_hub.py)                 *)
(***************************************************************************)
LogOutcomes == {"ok", "setup_fail", "enrich_fail", "insert_fail"}

\* the gateway behaviour behind each outcome of a hub logging call
GatewayOf(outcome) ==
  [summary |-> IF outcome = "enrich_fail" THEN "fail" ELSE "s1",
   tags |-> "ok", embedding |-> "ok", rnd |-> "v1",
   insert_ok |-> (outcome # "insert_fail")]

\* EpisodicMemory.add_event as the hub calls it (lines 166-177): the
\* imports and MongoDBManager() first, then add_event with a timestamp of now
EpisodicAddEvent(cid, transcript, agent_source, event_type, outcome) ==
  IF outcome = "setup_fail" THEN [raised |-> TRUE, docs |-> <<>>]
  ELSE add_event(cid, transcript, agent_source, event_type, NotGiven, Given(Now),
                 GatewayOf(outcome))

\* EpisodicMemoryWrapper.add: calls EpisodicMemory.add_event WITHOUT
\* agent_source (the default "portfolio_manager" is stored); any exception
\* is swallowed and "" returned.
WrapperAdd(cid, event_type, transcript, agent_source, outcome) ==
  LET r == EpisodicAddEvent(cid, transcript, "portfolio_manager", event_type, outcome)
  IN [raised |-> FALSE, docs |-> r.docs]

\* EpisodicMemoryWrapper.add_event: `content` is a required positional
\* parameter; a call that passes transcript=... and no content raises
\* TypeError before the body runs.
WrapperAddEvent(has_content, cid, content, agent_source, event_type, outcome) ==
  IF ~has_content
  THEN [raised |-> TRUE, docs |-> <<>>]
  ELSE WrapperAdd(cid, event_type,
                  IF agent_source # None THEN <<agent_source, content>> ELSE <<content>>,
                  agent_source, outcome)

(***************************************************************************)
(* The six agent methods (agents.py): execute_task, then a write to the    *)
(* agent's own collection, then the agent's own episodic logging call.     *)
(***************************************************************************)
DbTypes == {"fastino", "mongodb", "none"}

\* does the agent's db_manager.<collection> write raise?
\*   none:    mongo_db_manager is None, attribute access raises
\*   fastino: insert_one swallows every error; update_one(..., upsert=True)
\*            (phase 3) is a TypeError, FastinoCollection.update_one has no
\*            such parameter
\*   mongodb: raises when the store fails
AgentStoreRaises(p, dbt, store_ok) ==
  CASE dbt = "none" -> TRUE
    [] dbt = "fastino" -> (p = 3)
    [] OTHER -> ~store_ok

\* client_id each agent passes to its own logging call
AgentLogClientId(p, cd, cid) ==
  CASE p = 1 -> "general"
    [] p = 2 -> cd.profile_user_id
    [] p = 3 -> cd.portfolio_user_id
    [] p = 4 -> cd.profile_user_id
    [] p = 5 -> cd.portfolio_user_id
    [] OTHER -> cid

\* one agent method, start to end.  Every agent passes its payload dict as
\* the second positional argument of execute_task (max_tokens), and calls
\* episodic.add_event with transcript=... and no content.
AgentCall(p, cd, cid, dbt, setup_ok, responses, store_ok, log_outcome) ==
  LET et == execute_task("dict", setup_ok, responses)
      log == WrapperAddEvent(FALSE, AgentLogClientId(p, cd, cid), et.result,
                             AgentName[p], AgentEventType[p], log_outcome)
  IN IF AgentStoreRaises(p, dbt, store_ok)
     THEN [raised |-> TRUE, result |-> None, docs |-> <<>>, task |-> et]
     ELSE IF log.raised
     THEN [raised |-> TRUE, result |-> None, docs |-> log.docs, task |-> et]
     ELSE [raised |-> FALSE, result |-> et.result, docs |-> log.docs, task |-> et]

\* one agent method called on its own, with what the gateway would answer
AgentMethod(p, cd, cid, setup_ok, responses, store_ok, log_outcome) ==
  /\ LET a == AgentCall(p, cd, cid, db_type, setup_ok, responses, store_ok, log_outcome)
     IN agent_call' = [called |-> TRUE, phase |-> p, setup_ok |-> setup_ok,
                       responses |-> responses, gateway_calls |-> a.task.gateway_calls,
                       task_result |-> a.task.result, raised |-> a.raised,
                       result |-> a.result]

\* bookkeeping on persisted events: which phase's call wrote it, and who
Tagged(docs, p, who) ==
  [i \in DOMAIN docs |->
     [client_id |-> docs[i].client_id, agent_source |-> docs[i].agent_source,
      event_type |-> docs[i].event_type, full_transcript |-> docs[i].full_transcript,
      phase |-> p, logged_by |-> who]]

(***************************************************************************)
(* FinancialAdvisoryOrchestrator.comprehensive_analysis                    *)
(***************************************************************************)
ClientData ==
  [profile_user_id : ClientIds, portfolio_user_id : ClientIds \cup {None}]

InitialContext(cd) ==
  [k \in InputKeys |->
     CASE k = "client_profile" -> <<"profile", cd.profile_user_id>>
       [] k = "client_portfolio" -> <<"portfolio", cd.portfolio_user_id>>
       [] k = "client_goals" -> <<"goals">>
       [] OTHER -> <<"tax_info">>]

ZeroWrites(keys) == [k \in keys |-> 0]

ResultKeys == {ResultKey[p] : p \in 1..NumPhases}
ContextKeys == {ContextKey[p] : p \in 1..NumPhases} \ {None}

\* lines 82-93: a new call
ComprehensiveAnalysis(cd) ==
  /\ pc # "running"
  /\ runs < MaxRuns
  /\ pc' = "running"
  /\ phase' = 1
  /\ runs' = runs + 1
  /\ client_data' = cd
  /\ client_id' = cd.profile_user_id
  /\ results' = EmptyDict
  /\ context' = InitialContext(cd)
  /\ invoked' = <<>>
  /\ result_writes' = ZeroWrites(ResultKeys)
  /\ context_writes' = ZeroWrites(ContextKeys \cup InputKeys)
  /\ run_start' = Len(episodic_memories)
  /\ final_recommendation' = NoCall
  /\ orch_logging' = NoCall
  /\ UNCHANGED <<episodic_memories, db_type>>

\* one phase: the agent call, then results[...] = r, context[...] = r and
\* the orchestrator's own add_event.  An exception out of the agent method
\* is not caught anywhere in comprehensive_analysis.
RunPhase(setup_ok, responses, store_ok, agent_log, orch_log) ==
  /\ pc = "running"
  /\ LET p == phase
         a == AgentCall(p, client_data, client_id, db_type, setup_ok, responses,
                        store_ok, agent_log)
         o == WrapperAddEvent(TRUE, client_id, a.result, AgentSource[p],
                              OrchEventType[p], orch_log)
     IN /\ invoked' = Append(invoked, AgentSource[p])
        /\ IF a.raised
           THEN /\ pc' = "raised"
                /\ episodic_memories' = episodic_memories \o Tagged(a.docs, p, "agent")
                /\ UNCHANGED <<phase, results, context, result_writes, context_writes>>
           ELSE /\ results' = DictSet(results, ResultKey[p], a.result)
                /\ result_writes' = Bump(result_writes, ResultKey[p])
                /\ IF ContextKey[p] # None
                   THEN /\ context' = DictSet(context, ContextKey[p], a.result)
                        /\ context_writes' = Bump(context_writes, ContextKey[p])
                   ELSE UNCHANGED <<context, context_writes>>
                /\ episodic_memories' = episodic_memories \o Tagged(a.docs, p, "agent")
                                           \o Tagged(o.docs, p, "orchestrator")
                /\ IF p = NumPhases
                   THEN pc' = "returned" /\ phase' = p
                   ELSE pc' = "running" /\ phase' = p + 1
  \* lines 154-157: built from client_id and the results dict as it stands
  /\ final_recommendation' =
       IF phase = NumPhases
       THEN [called |-> TRUE, client_id |-> client_id, recommendations |-> results]
       ELSE final_recommendation
  \* the orchestrator's add_event is reached only when the agent returned
  /\ orch_logging' =
       LET a == AgentCall(phase, client_data, client_id, db_type, setup_ok, responses,
                          store_ok, agent_log)
           o == WrapperAddEvent(TRUE, client_id, a.result, AgentSource[phase],
                                OrchEventType[phase], orch_log)
       IN IF a.raised THEN orch_logging
          ELSE [called |-> TRUE, phase |-> phase, outcome |-> orch_log,
                raised |-> o.raised, persisted |-> Len(o.docs)]
  /\ UNCHANGED <<client_id, client_data, run_start, runs, db_type>>

(***************************************************************************)
(* EpisodicMemory.add_event called directly (seeding script, API)          *)
(***************************************************************************)
SeedAgentSources == {"advisor"}
SeedEventTypes == {"client_onboarding"}

AddEvent(cid, agent_source, event_type, outcome) ==
  /\ pc # "running"
  /\ Len(episodic_memories) < MaxEvents
  /\ LET r == EpisodicAddEvent(cid, <<"seed">>, agent_source, event_type, outcome)
     IN episodic_memories' = episodic_memories \o Tagged(r.docs, 0, "caller")
  /\ UNCHANGED <<pc, phase, client_id, client_data, results, context, invoked,
                 result_writes, context_writes, run_start, runs, db_type,
                 final_recommendation, orch_logging>>

(***************************************************************************)
(* The two logging paths as operations of their own: EpisodicMemory.add_event *)
(* called by the API and the seeding script, and the hub's add_event as    *)
(* the orchestrator calls it (content given positionally).                 *)
(***************************************************************************)
Transcripts == {"t1"}
HubAgentSources == {"market_researcher", None}

\* bookkeeping on persisted events: the text the logging caller supplied,
\* and the path it came by
Logged(docs, supplied, path) ==
  [i \in DOMAIN docs |->
     [f \in (DOMAIN docs[i]) \cup {"supplied", "path"} |->
        CASE f = "supplied" -> supplied
          [] f = "path" -> path
          [] OTHER -> docs[i][f]]]

\* api.add_episodic_event / seed_episodic_memory -> EpisodicMemory.add_event
DirectAddEvent(cid, transcript, timestamp, gw) ==
  /\ Len(episodic_memories) < MaxEvents
  /\ LET r == add_event(cid, <<transcript>>, "advisor", "client_onboarding", NotGiven,
                        timestamp, gw)
     IN /\ episodic_memories' = episodic_memories \o Logged(r.docs, <<transcript>>, "direct")
        /\ last_add' = [called |-> TRUE, path |-> "direct",
                        summary_failed |-> (gw.summary = "fail"),
                        tags_failed |-> (gw.tags = "fail"),
                        embedding_failed |-> (gw.embedding = "fail"),
                        insert_ok |-> gw.insert_ok,
                        raised |-> r.raised, stored |-> Len(r.docs)]
  /\ retrievals' = <<>>
  /\ timeline' = NoCall

\* memory_hub.episodic.add_event(client_id, content, agent_source=..., event_type=...)
HubAddEvent(cid, content, agent_source, outcome) ==
  /\ Len(episodic_memories) < MaxEvents
  /\ LET r == WrapperAddEvent(TRUE, cid, content, agent_source, "market_analysis", outcome)
     IN /\ episodic_memories' = episodic_memories \o Logged(r.docs, <<content>>, "hub")
        /\ last_add' = [called |-> TRUE, path |-> "hub",
                        summary_failed |-> (outcome = "enrich_fail"),
                        tags_failed |-> FALSE,
                        embedding_failed |-> FALSE,
                        insert_ok |-> (outcome # "insert_fail"),
                        raised |-> r.raised, stored |-> Len(r.docs)]
  /\ retrievals' = <<>>
  /\ timeline' = NoCall

\* api.retrieve_episodic_memories / main.py -> retrieve_memories; the
\* embedding of the query comes from get_embedding, fallback included
TopKs == {1, 2}

RetrieveMemories(cid, query, top_k, outcome, rnd) ==
  /\ Len(retrievals) < MaxRetrievals
  /\ LET query_embedding == get_embedding(query, outcome, rnd)
     IN \E res \in retrieve_memories(episodic_memories, cid, query_embedding, top_k) :
          retrievals' = Append(retrievals,
                               [client_id |-> cid, query |-> query, top_k |-> top_k,
                                query_embedding |-> query_embedding,
                                fallback |-> (outcome # "ok"), result |-> res])
  /\ UNCHANGED <<episodic_memories, last_add, timeline>>

\* main.py -> get_client_timeline
GetClientTimeline(cid, start_date, end_date) ==
  /\ \E res \in get_client_timeline(episodic_memories, cid, start_date, end_date) :
       timeline' = [called |-> TRUE, client_id |-> cid, start_date |-> start_date,
                    end_date |-> end_date, result |-> res]
  /\ UNCHANGED <<episodic_memories, last_add, retrievals>>

(***************************************************************************)
(* Semantic memory (semantic_memory/memory.py)                             *)
(***************************************************************************)
SemKeys == ClientIds \X MemoryTypes

\* what the gateway calls and the insert inside create_semantic_memory do
CreateOutcomes == {"ok", "summary_fail", "embedding_fail", "insert_fail"}

\* get_semantic_memory: find_one on {client_id, memory_type, is_active: True}:
\* the first matching document in collection order, None when there is none
ActiveIndexes(store, c, t) ==
  {i \in DOMAIN store : /\ store[i].client_id = c
                        /\ store[i].memory_type = t
                        /\ store[i].is_active}

Min(S) == CHOOSE x \in S : \A y \in S : x <= y

\* find_one's None
NoDoc == [id |-> 0, client_id |-> None, memory_type |-> None, data |-> None,
          version |-> 0, is_active |-> FALSE]

get_semantic_memory(store, c, t) ==
  IF ActiveIndexes(store, c, t) = {} THEN NoDoc
  ELSE store[Min(ActiveIndexes(store, c, t))]

\* the memory_doc of create_semantic_memory (lines 102-114)
MemoryDoc(id, c, t, d) ==
  [id |-> id, client_id |-> c, memory_type |-> t, data |-> d,
   version |-> InitialVersion, is_active |-> TRUE]

\* create_semantic_memory: summary, embedding, then one insert_one; an
\* exception in any of the three is re-raised and nothing is stored
create_semantic_memory(store, id, c, t, d, outcome) ==
  IF outcome = "ok"
  THEN [raised |-> FALSE, store |-> Append(store, MemoryDoc(id, c, t, d))]
  ELSE [raised |-> TRUE, store |-> store]

\* update_one({"_id": id}, {"$set": {"is_active": False}})
Deactivate(store, id) ==
  [i \in DOMAIN store |->
     IF store[i].id = id THEN [store[i] EXCEPT !.is_active = FALSE] ELSE store[i]]

\* what the store writes of update_semantic_memory do, besides the outcomes
\* of the create it ends with
UpdateOutcomes == CreateOutcomes \cup {"archive_fail", "deactivate_fail"}

CreatePart(outcome) == IF outcome \in CreateOutcomes THEN outcome ELSE "ok"

\* the archive copy keeps the _id of the record it copies: a second copy of
\* the same record is a duplicate key
InArchive(archive, id) == \E i \in DOMAIN archive : archive[i].id = id

\* update_semantic_memory with the archive copy written only once the new
\* record has been created (a failed update then archives nothing)
update_semantic_memory_archive_last(store, archive, id, c, t, d, outcome) ==
  LET cur == get_semantic_memory(store, c, t) IN
  IF cur = NoDoc
  THEN LET r == create_semantic_memory(store, id, c, t, d, CreatePart(outcome))
       IN [raised |-> r.raised, store |-> r.store, archive |-> archive, found |-> FALSE,
           old_id |-> 0, old_version |-> 0]
  ELSE IF outcome = "archive_fail" \/ InArchive(archive, cur.id)
  THEN [raised |-> TRUE, store |-> store, archive |-> archive, found |-> TRUE,
        old_id |-> cur.id, old_version |-> cur.version]
  ELSE IF outcome = "deactivate_fail"
  THEN [raised |-> TRUE, store |-> store, archive |-> archive, found |-> TRUE,
        old_id |-> cur.id, old_version |-> cur.version]
  ELSE LET r == create_semantic_memory(Deactivate(store, cur.id), id, c, t, d, outcome)
       IN [raised |-> r.raised, store |-> r.store,
           archive |-> IF r.raised THEN archive ELSE Append(archive, cur),
           found |-> TRUE, old_id |-> cur.id, old_version |-> cur.version]

\* update_semantic_memory: with no active record it is create; otherwise
\* archive a copy, deactivate, create
update_semantic_memory(store, archive, id, c, t, d, outcome) ==
  LET cur == get_semantic_memory(store, c, t) IN
  IF cur = NoDoc
  THEN LET r == create_semantic_memory(store, id, c, t, d, CreatePart(outcome))
       IN [raised |-> r.raised, store |-> r.store, archive |-> archive, found |-> FALSE,
           old_id |-> 0, old_version |-> 0]
  ELSE IF outcome = "archive_fail" \/ InArchive(archive, cur.id)
  THEN [raised |-> TRUE, store |-> store, archive |-> archive, found |-> TRUE,
        old_id |-> cur.id, old_version |-> cur.version]
  ELSE IF outcome = "deactivate_fail"
  THEN [raised |-> TRUE, store |-> store, archive |-> Append(archive, cur), found |-> TRUE,
        old_id |-> cur.id, old_version |-> cur.version]
  ELSE LET r == create_semantic_memory(Deactivate(store, cur.id), id, c, t, d, outcome)
       IN [raised |-> r.raised, store |-> r.store, archive |-> Append(archive, cur),
           found |-> TRUE, old_id |-> cur.id, old_version |-> cur.version]

\* one entry of the call log: the call, what it was given, what it found
\* and how it ended
CallRecord(op, c, t, outcome, r) ==
  [op |-> op, key |-> <<c, t>>, raised |-> r.raised,
   archive_error |-> r.found /\ outcome = "archive_fail",
   summary_error |-> /\ outcome = "summary_fail"
                     /\ ~(r.found /\ InArchive(semantic_memories_archive, r.old_id)),
   found |-> r.found, old_id |-> r.old_id, old_version |-> r.old_version,
   already_archived |-> r.found /\ InArchive(semantic_memories_archive, r.old_id),
   new_version |-> IF r.raised THEN 0 ELSE r.store[Len(r.store)].version]

CreateSemanticMemory(c, t, d, outcome) ==
  /\ Len(sem_history) < MaxSemanticCalls
  /\ LET r == create_semantic_memory(semantic_memories, next_id, c, t, d, outcome)
     IN /\ semantic_memories' = r.store
        /\ next_id' = IF r.raised THEN next_id ELSE next_id + 1
        /\ sem_history' = Append(sem_history,
                                 CallRecord("create", c, t, outcome,
                                            [raised |-> r.raised, store |-> r.store,
                                             found |-> FALSE, old_id |-> 0,
                                             old_version |-> 0]))
  /\ UNCHANGED semantic_memories_archive

UpdateSemanticMemory(c, t, d, outcome) ==
  /\ Len(sem_history) < MaxSemanticCalls
  /\ LET r == update_semantic_memory(semantic_memories, semantic_memories_archive,
                                     next_id, c, t, d, outcome)
     IN /\ semantic_memories' = r.store
        /\ semantic_memories_archive' = r.archive
        /\ next_id' = IF r.raised THEN next_id ELSE next_id + 1
        /\ sem_history' = Append(sem_history, CallRecord("update", c, t, outcome, r))

(***************************************************************************)
(* Procedural memory (procedural_memory/procedural_memory.py and           *)
(* seed_helper.py).  Scores are in hundredths; a success rate is kept in   *)
(* sixtieths (exact for histories of up to six entries) and a stored       *)
(* confidence score in hundredths of sixtieths.                            *)
(***************************************************************************)
InitialConfidence == 50
SeedConfidence == 80
BaseConfidence == 50
ConfidenceSpan == 45
MaxConfidence == 95
NeutralRate == 50
ProcNumCandidates == 20
RateUnit == 60

Outcomes == {"success", "failure"}
ProcedureTypes == {"rebalancing"}

\* dict.get(name, default)
Get(doc, name, default) == IF name \in DOMAIN doc THEN doc[name] ELSE default

\* execute_task's text parsed by json.loads, the description embedded by
\* Voyage, the insert: what may fail in learn_procedure_from_episodes
LearnOutcomes == {"ok", "task_error", "bad_json", "no_description", "embedding_fail",
                  "insert_fail"}

\* learn_procedure_from_episodes: the one insert_one comes last, every
\* failure before it propagates.  The document has no success_rate field.
learn_procedure_from_episodes(store, id, cid, procedure_type, embedding, outcome) ==
  IF outcome # "ok" THEN [raised |-> TRUE, store |-> store]
  ELSE [raised |-> FALSE,
        store |-> Append(store,
                         [id |-> id, client_id |-> cid, procedure_type |-> procedure_type,
                          embedding |-> embedding, success_history |-> <<>>,
                          execution_count |-> 0,
                          confidence_score |-> InitialConfidence * RateUnit])]

\* seed_helper.create_procedure: no client_id, no embedding
create_procedure(store, id, insert_ok) ==
  IF ~insert_ok THEN [raised |-> TRUE, store |-> store]
  ELSE [raised |-> FALSE,
        store |-> Append(store,
                         [id |-> id, procedure_type |-> "standard",
                          success_history |-> <<>>, execution_count |-> 0,
                          confidence_score |-> SeedConfidence * RateUnit,
                          success_rate |-> 0])]

\* find_one({"_id": ObjectId(procedure_id)}): NotGiven for None
FindProcedure(store, id) ==
  IF \E i \in DOMAIN store : store[i].id = id
  THEN Given(store[CHOOSE i \in DOMAIN store : store[i].id = id])
  ELSE NotGiven

\* success_count / len(success_history)
SuccessRate(success_history) ==
  (RateUnit * Cardinality({i \in DOMAIN success_history :
                             success_history[i].outcome = "success"}))
     \div Len(success_history)

\* the confidence with no floor: 0.95 * success_rate
ConfidenceScore_no_floor(success_rate) == MaxConfidence * success_rate

\* min(0.95, 0.5 + (success_rate * 0.45))
ConfidenceScore(success_rate) ==
  LET c == BaseConfidence * RateUnit + success_rate * ConfidenceSpan
  IN IF MaxConfidence * RateUnit < c THEN MaxConfidence * RateUnit ELSE c

\* the update computed from the history with the new record left out
ExecutionUpdate_stale_rate(procedure, outcome) ==
  LET execution_record == [outcome |-> outcome]
      old_history == Get(procedure, "success_history", <<>>)
      rate == IF old_history = <<>> THEN 0 ELSE SuccessRate(old_history)
  IN [push |-> execution_record, success_rate |-> rate,
      execution_count |-> Get(procedure, "execution_count", 0) + 1,
      confidence_score |-> ConfidenceScore(rate)]

\* lines 124-135: the update document computed from the procedure read
ExecutionUpdate(procedure, outcome) ==
  LET execution_record == [outcome |-> outcome]
      success_history == Append(Get(procedure, "success_history", <<>>), execution_record)
  IN [push |-> execution_record,
      success_rate |-> SuccessRate(success_history),
      execution_count |-> Get(procedure, "execution_count", 0) + 1,
      confidence_score |-> ConfidenceScore(SuccessRate(success_history))]

\* update_one({"_id": id}, {"$push": ..., "$set": ...}) on the stored document
ApplyExecutionUpdate(store, id, u) ==
  [i \in DOMAIN store |->
     IF store[i].id # id THEN store[i]
     ELSE DictSet(DictSet(DictSet(DictSet(store[i],
            "success_history", Append(Get(store[i], "success_history", <<>>), u.push)),
            "success_rate", u.success_rate),
            "execution_count", u.execution_count),
            "confidence_score", u.confidence_score)]

\* record_procedure_execution: procedure.get on None raises AttributeError
record_procedure_execution(store, id, outcome) ==
  LET procedure == FindProcedure(store, id) IN
  IF procedure = NotGiven THEN [raised |-> TRUE, store |-> store]
  ELSE [raised |-> FALSE,
        store |-> ApplyExecutionUpdate(store, id, ExecutionUpdate(procedure[1], outcome))]

\* $gt against a number: false for a missing field
Gt(a, n) == a # NotGiven /\ a[1] > n

\* {"$cond": [{"$gt": ["$success_rate", 0]}, "$success_rate", 0.5]}
RateWeight(doc) ==
  IF Gt(Field(doc, "success_rate"), 0)
  THEN Field(doc, "success_rate")
  ELSE Given((NeutralRate * RateUnit) \div 100)

\* $multiply: ["$score", "$confidence_score", {"$cond": ...}]
WeightedScoreField(doc) ==
  Multiply(Multiply(Field(doc, "score"), Field(doc, "confidence_score")), RateWeight(doc))

\* the $vectorSearch stage of recommend_procedure: numCandidates 20,
\* limit top_k, filter on client_id
ProcedureSearch(store, cid, situation_embedding, top_k) ==
  LET matching == {i \in DOMAIN store : /\ Field(store[i], "client_id") = Given(cid)
                                        /\ "embedding" \in DOMAIN store[i]}
      sim == [i \in matching |-> Similarity(situation_embedding, store[i].embedding)]
      nearest == TopSeqs(matching, ProcNumCandidates, sim)
  IN UNION {TopSeqs({c[i] : i \in DOMAIN c}, top_k, sim) : c \in nearest}

\* recommend_procedure: every sequence the pipeline may return, each
\* element a stored procedure (by position) with its weighted_score.  The
\* trigger_match annotation added afterwards neither filters nor reorders.
recommend_procedure(store, cid, situation_embedding, top_k) ==
  LET weighted == [i \in DOMAIN store |-> WeightedScoreField(store[i])]
      key == [i \in DOMAIN store |-> SortKey(weighted[i])]
      sorted == UNION {TopSeqs({v[i] : i \in DOMAIN v}, Len(v), key) :
                         v \in ProcedureSearch(store, cid, situation_embedding, top_k)}
  IN {[n \in DOMAIN q |-> [index |-> q[n], weighted_score |-> weighted[q[n]]]] : q \in sorted}

\* the operations of the procedural store, one call each
TotalExecutions(store, waiting) ==
  LET RECURSIVE Sum(_)
      Sum(n) == IF n = 0 THEN 0 ELSE Sum(n - 1) + Len(Get(store[n], "success_history", <<>>))
  IN Sum(Len(store)) + Cardinality({w \in Callers : waiting[w] # NotGiven})

LearnProcedure(cid, procedure_type, embedding, outcome) ==
  /\ Len(procedural_memories) < MaxProcedures
  /\ LET r == learn_procedure_from_episodes(procedural_memories,
                                            Len(procedural_memories) + 1, cid,
                                            procedure_type, embedding, outcome)
     IN /\ procedural_memories' = r.store
        /\ proc_call' = [called |-> TRUE, op |-> "learn", raised |-> r.raised]
  /\ UNCHANGED pending

CreateProcedure(insert_ok) ==
  /\ Len(procedural_memories) < MaxProcedures
  /\ LET r == create_procedure(procedural_memories, Len(procedural_memories) + 1, insert_ok)
     IN /\ procedural_memories' = r.store
        /\ proc_call' = [called |-> TRUE, op |-> "create", raised |-> r.raised]
  /\ UNCHANGED pending

RecordProcedureExecution(id, outcome) ==
  /\ TotalExecutions(procedural_memories, pending) < MaxExecutions
  /\ LET r == record_procedure_execution(procedural_memories, id, outcome)
     IN /\ procedural_memories' = r.store
        /\ proc_call' = [called |-> TRUE, op |-> "record", id |-> id, outcome |-> outcome,
                         raised |-> r.raised]
  /\ UNCHANGED pending

RecommendProcedure(cid, situation_embedding, top_k) ==
  /\ \E res \in recommend_procedure(procedural_memories, cid, situation_embedding, top_k) :
       proc_call' = [called |-> TRUE, op |-> "recommend", client_id |-> cid,
                     situation_embedding |-> situation_embedding, top_k |-> top_k,
                     result |-> res]
  /\ UNCHANGED <<procedural_memories, pending>>

\* record_procedure_execution by concurrent callers: the find_one, and
\* later the update_one computed from what was read
ReadProcedure(w, id, outcome) ==
  /\ pending[w] = NotGiven
  /\ TotalExecutions(procedural_memories, pending) < MaxExecutions
  /\ FindProcedure(procedural_memories, id) # NotGiven
  /\ pending' = [pending EXCEPT ![w] =
                   Given([id |-> id, outcome |-> outcome,
                          procedure |-> FindProcedure(procedural_memories, id)[1]])]
  /\ UNCHANGED <<procedural_memories, proc_call>>

UpdateProcedure(w) ==
  /\ pending[w] # NotGiven
  /\ procedural_memories' =
       ApplyExecutionUpdate(procedural_memories, pending[w][1].id,
                            ExecutionUpdate(pending[w][1].procedure, pending[w][1].outcome))
  /\ pending' = [pending EXCEPT ![w] = NotGiven]
  /\ UNCHANGED proc_call

(***************************************************************************)
(* FinancialAdvisoryOrchestrator.generate_report                           *)
(***************************************************************************)
ResultTexts == {"text", "error"}
NotAvailable == "N/A"

\* the template's section headers with the key each one reads, top to bottom
ReportSections ==
  <<[header |-> "Risk Assessment", key |-> "risk_assessment"],
    [header |-> "Portfolio Analysis", key |-> "portfolio_analysis"],
    [header |-> "Tax Optimization Opportunities", key |-> "tax_optimization"],
    [header |-> "Market Research & Trends", key |-> "market_research"],
    [header |-> "Financial Planning", key |-> "financial_plan"],
    [header |-> "Compliance Review", key |-> "compliance_review"]>>

\* a dict in insertion order, as a sequence of <<key, value>> pairs
HasKey(items, k) == \E i \in DOMAIN items : items[i][1] = k

\* dict.get(k, default) on such a dict
ItemGet(items, k, default) ==
  IF HasKey(items, k) THEN items[CHOOSE i \in DOMAIN items : items[i][1] = k][2]
  ELSE default

\* d[k] = v: a new key goes last, a known key keeps its place
ItemSet(items, k, v) ==
  IF HasKey(items, k)
  THEN [i \in DOMAIN items |-> IF items[i][1] = k THEN <<k, v>> ELSE items[i]]
  ELSE Append(items, <<k, v>>)

\* the report with one section per stored result, in the dict's own order
generate_report_insertion_order(items) ==
  [n \in DOMAIN items |->
     LET s == ReportSections[CHOOSE m \in DOMAIN ReportSections :
                               ReportSections[m].key = items[n][1]]
     IN [header |-> s.header, body |-> items[n][2]]]

\* the f-string of generate_report: the sections of the text, in order
generate_report(items) ==
  [n \in DOMAIN ReportSections |->
     [header |-> ReportSections[n].header,
      body |-> ItemGet(items, ReportSections[n].key, NotAvailable)]]

\* results[key] = value: comprehensive_analysis assigns each key once
InsertResult(k, v) ==
  /\ ~HasKey(report_results, k)
  /\ report_results' = ItemSet(report_results, k, v)
  /\ report' = NoCall

\* generate_report(results): the text is built, written to output_file and
\* returned; only the write can raise
GenerateReport(write_ok) ==
  /\ report' = [called |-> TRUE, raised |-> ~write_ok, write_ok |-> write_ok,
                sections |-> IF write_ok THEN generate_report(report_results) ELSE <<>>]
  /\ UNCHANGED report_results

(***************************************************************************)
(* update_semantic_memory by concurrent callers, one store operation at a  *)
(* time (run_analysis runs on a two-thread executor)                       *)
(***************************************************************************)
Finished(u) == u.called /\ u.pc \in {"done", "failed"}

\* a first record of a key, before any update is under way
SeedSemanticMemory(c, t, d) ==
  /\ \A w \in Callers : ~updaters[w].called
  /\ get_semantic_memory(semantic_memories, c, t) = NoDoc
  /\ semantic_memories' =
       create_semantic_memory(semantic_memories, next_id, c, t, d, "ok").store
  /\ next_id' = next_id + 1
  /\ UNCHANGED <<semantic_memories_archive, sem_history, updaters>>

\* line 138: current_memory = get_semantic_memory(client_id, memory_type)
ReadActive(w, c, t, d) ==
  /\ ~updaters[w].called
  /\ LET cur == get_semantic_memory(semantic_memories, c, t)
     IN updaters' = [updaters EXCEPT ![w] =
                       [called |-> TRUE, pc |-> IF cur = NoDoc THEN "create" ELSE "archive",
                        key |-> <<c, t>>, data |-> d, current |-> cur]]
  /\ UNCHANGED sem_vars

\* lines 145-147: the copy keeps the _id it was read with, so the insert
\* raises DuplicateKeyError when that record is in the archive already
InsertArchiveCopy(w) ==
  /\ updaters[w].called
  /\ updaters[w].pc = "archive"
  /\ IF InArchive(semantic_memories_archive, updaters[w].current.id)
     THEN /\ updaters' = [updaters EXCEPT ![w].pc = "failed"]
          /\ UNCHANGED semantic_memories_archive
     ELSE /\ semantic_memories_archive' =
               Append(semantic_memories_archive, updaters[w].current)
          /\ updaters' = [updaters EXCEPT ![w].pc = "deactivate"]
  /\ UNCHANGED <<semantic_memories, next_id, sem_history>>

\* lines 150-153: update_one on the _id read
DeactivateOld(w) ==
  /\ updaters[w].called
  /\ updaters[w].pc = "deactivate"
  /\ semantic_memories' = Deactivate(semantic_memories, updaters[w].current.id)
  /\ updaters' = [updaters EXCEPT ![w].pc = "create"]
  /\ UNCHANGED <<semantic_memories_archive, next_id, sem_history>>

\* line 156 (line 141 when nothing was active): create_semantic_memory
InsertNew(w) ==
  /\ updaters[w].called
  /\ updaters[w].pc = "create"
  /\ semantic_memories' =
       create_semantic_memory(semantic_memories, next_id, updaters[w].key[1],
                              updaters[w].key[2], updaters[w].data, "ok").store
  /\ next_id' = next_id + 1
  /\ updaters' = [updaters EXCEPT ![w].pc = "done"]
  /\ UNCHANGED <<semantic_memories_archive, sem_history>>

(***************************************************************************)
(* Specifications                                                          *)
(***************************************************************************)
Init ==
  /\ pc = "idle"
  /\ phase = 1
  /\ client_id = None
  /\ client_data = [profile_user_id |-> None, portfolio_user_id |-> None]
  /\ results = EmptyDict
  /\ context = EmptyDict
  /\ invoked = <<>>
  /\ result_writes = ZeroWrites(ResultKeys)
  /\ context_writes = ZeroWrites(ContextKeys \cup InputKeys)
  /\ episodic_memories = <<>>
  /\ run_start = 0
  /\ runs = 0
  /\ db_type \in DbTypes
  /\ semantic_memories = <<>>
  /\ semantic_memories_archive = <<>>
  /\ next_id = 1
  /\ sem_history = <<>>
  /\ et_call = NoCall
  /\ last_add = NoCall
  /\ retrievals = <<>>
  /\ timeline = NoCall
  /\ final_recommendation = NoCall
  /\ orch_logging = NoCall
  /\ procedural_memories = <<>>
  /\ proc_call = NoCall
  /\ pending = [w \in Callers |-> NotGiven]
  /\ report_results = <<>>
  /\ report = NoCall
  /\ agent_call = NoCall
  /\ updaters = [w \in Callers |-> NoCall]

StartRun == \E cd \in ClientData : ComprehensiveAnalysis(cd) /\ UNCHANGED <<sem_vars, exec_vars, epi_vars,
                      proc_vars, report_vars, agent_vars, semrace_vars>>

Phase ==
  \E setup_ok \in BOOLEAN, responses \in [1..MaxAttempts -> GatewayResponses],
     store_ok \in BOOLEAN, agent_log \in LogOutcomes, orch_log \in LogOutcomes :
       RunPhase(setup_ok, responses, store_ok, agent_log, orch_log)
         /\ UNCHANGED <<sem_vars, exec_vars, epi_vars,
                      proc_vars, report_vars, agent_vars, semrace_vars>>

Seed ==
  \E cid \in ClientIds, src \in SeedAgentSources, et \in SeedEventTypes,
     outcome \in LogOutcomes :
       AddEvent(cid, src, et, outcome) /\ UNCHANGED <<sem_vars, exec_vars, epi_vars,
                      proc_vars, report_vars, agent_vars, semrace_vars>>

Next == StartRun \/ Phase \/ Seed

Spec == Init /\ [][Next]_vars

SemInit == Init /\ db_type = "mongodb"

Create ==
  \E c \in ClientIds, t \in MemoryTypes, d \in DataValues, outcome \in CreateOutcomes :
    CreateSemanticMemory(c, t, d, outcome) /\ UNCHANGED <<orch_vars, exec_vars, epi_vars,
                      proc_vars, report_vars, agent_vars, semrace_vars>>

Update ==
  \E c \in ClientIds, t \in MemoryTypes, d \in DataValues, outcome \in UpdateOutcomes :
    UpdateSemanticMemory(c, t, d, outcome) /\ UNCHANGED <<orch_vars, exec_vars, epi_vars,
                      proc_vars, report_vars, agent_vars, semrace_vars>>

SemNext == Create \/ Update

SemanticSpec == SemInit /\ [][SemNext]_vars

Execute ==
  \E max_tokens \in MaxTokensKinds, setup_ok \in BOOLEAN,
     responses \in [1..MaxAttempts -> GatewayResponses] :
       ExecuteTask(max_tokens, setup_ok, responses)
         /\ UNCHANGED <<orch_vars, sem_vars, epi_vars,
                      proc_vars, report_vars, agent_vars, semrace_vars>>

ExecNext == Execute

ExecSpec == Init /\ [][ExecNext]_vars

LogDirect ==
  \E cid \in ClientIds, transcript \in Transcripts,
     timestamp \in {NotGiven} \cup {Given(t) : t \in Timestamps}, gw \in GatewayOutcomes :
       DirectAddEvent(cid, transcript, timestamp, gw)
         /\ UNCHANGED <<run_vars, sem_vars, exec_vars,
                      proc_vars, report_vars, agent_vars, semrace_vars>>

LogHub ==
  \E cid \in ClientIds, content \in Transcripts, agent_source \in HubAgentSources,
     outcome \in LogOutcomes :
       HubAddEvent(cid, content, agent_source, outcome)
         /\ UNCHANGED <<run_vars, sem_vars, exec_vars,
                      proc_vars, report_vars, agent_vars, semrace_vars>>

EpisodicNext == LogDirect \/ LogHub

EpisodicSpec == SemInit /\ [][EpisodicNext]_vars

\* the gateway answering every call of add_event
WorkingGateways ==
  {gw \in GatewayOutcomes : /\ gw.summary # "fail" /\ gw.tags = "ok"
                            /\ gw.embedding = "ok" /\ gw.rnd = "v1" /\ gw.insert_ok}

StoreEvent ==
  \E cid \in ClientIds, transcript \in Transcripts, t \in Timestamps,
     gw \in WorkingGateways :
       DirectAddEvent(cid, transcript, Given(t), gw)
         /\ UNCHANGED <<run_vars, sem_vars, exec_vars,
                      proc_vars, report_vars, agent_vars, semrace_vars>>

Retrieve ==
  \E cid \in ClientIds, query \in QueryTexts, top_k \in TopKs,
     outcome \in {"ok", "fail"}, rnd \in Vectors :
       RetrieveMemories(cid, query, top_k, outcome, rnd)
         /\ UNCHANGED <<run_vars, sem_vars, exec_vars,
                      proc_vars, report_vars, agent_vars, semrace_vars>>

RetrievalNext == StoreEvent \/ Retrieve

RetrievalSpec == SemInit /\ [][RetrievalNext]_vars

Timeline ==
  \E cid \in ClientIds, start_date \in Timestamps, end_date \in Timestamps :
    GetClientTimeline(cid, start_date, end_date)
      /\ UNCHANGED <<run_vars, sem_vars, exec_vars,
                      proc_vars, report_vars, agent_vars, semrace_vars>>

TimelineNext == StoreEvent \/ Timeline

TimelineSpec == SemInit /\ [][TimelineNext]_vars

(***************************************************************************)
(* Properties of comprehensive_analysis (checked under Spec)               *)
(***************************************************************************)
Ended == pc \in {"returned", "raised"}

IsPrefix(a, b) == Len(a) <= Len(b) /\ \A i \in 1..Len(a) : a[i] = b[i]

\* indexes of the events persisted since the current run started
RunEventIndexes == (run_start + 1)..Len(episodic_memories)

\* C1: for every pattern of agent or gateway failures the call returns and
\* never raises; when it has ended all six agents have been invoked,
\* Compliance Review included, and every phase has its result (text or the
\* in-band error string) recorded in results.
C1_NoFailureStopsTheRun ==
  /\ pc # "raised"
  /\ Ended => /\ Len(invoked) = NumPhases
              /\ invoked[NumPhases] = "compliance_officer"
              /\ \A p \in 1..NumPhases : /\ ResultKey[p] \in DOMAIN results
                                         /\ results[ResultKey[p]] \in {"text", "error"}

\* C2: the agents are invoked in the fixed order market research, risk,
\* portfolio, planning, tax, compliance: at every moment the agents invoked
\* so far are a prefix of that order (none twice, none out of turn), and a
\* run that has ended has invoked all six (no phase is skipped).
C2_FixedPhaseOrder ==
  /\ IsPrefix(invoked, AgentSource)
  /\ Ended => invoked = AgentSource

\* C3: every agent invocation of the run has exactly one persisted episodic
\* event, whose agent_source identifies that agent and whose event_type is
\* that phase's label.
C3_OneTaggedEventPerInvocation ==
  (pc # "idle") =>
    \A p \in 1..Len(invoked) :
      LET E == {j \in RunEventIndexes : episodic_memories[j].phase = p} IN
        /\ Cardinality(E) = 1
        /\ \A j \in E :
             /\ episodic_memories[j].agent_source \in {AgentSource[p], AgentName[p]}
             /\ episodic_memories[j].event_type \in {OrchEventType[p], AgentEventType[p]}

\* C4: a run that has ended has added exactly six episodic events whose
\* client_id is the run's client id.
C4_SixEventsForTheClient ==
  Ended =>
    Cardinality({j \in RunEventIndexes : episodic_memories[j].client_id = client_id}) = 6

C6_ContextWrittenOnce ==
  Ended => /\ \A k \in ContextKeys : k \in DOMAIN context /\ context_writes[k] = 1
           /\ \A k \in InputKeys : /\ context_writes[k] = 0
                                   /\ context[k] = InitialContext(client_data)[k]

(***************************************************************************)
(* Properties of the semantic store (checked under SemanticSpec)           *)
(***************************************************************************)
CallsOn(k) == {i \in DOMAIN sem_history : sem_history[i].key = k}

UpdatesOn(k) == {i \in CallsOn(k) : sem_history[i].op = "update"}

UpdatesThatFoundActive(k) == {i \in UpdatesOn(k) : sem_history[i].found}

\* the update calls whose archive insert ran and did not raise: insert_one
\* raises on a store error and on a record that is in the archive already
UpdatesThatArchived(k) ==
  {i \in UpdatesThatFoundActive(k) :
     ~sem_history[i].archive_error /\ ~sem_history[i].already_archived}

ArchivedOf(k) ==
  {i \in DOMAIN semantic_memories_archive :
     <<semantic_memories_archive[i].client_id,
       semantic_memories_archive[i].memory_type>> = k}

LastCall == sem_history[Len(sem_history)]

\* C7: after a sequence of create/update calls on one key that starts with
\* a create (every call having completed), exactly one record of that key
\* is active.
C7_SingleActiveRecord ==
  \A k \in SemKeys :
    (/\ CallsOn(k) # {}
     /\ sem_history[Min(CallsOn(k))].op = "create"
     /\ \A i \in CallsOn(k) : ~sem_history[i].raised)
    => Cardinality(ActiveIndexes(semantic_memories, k[1], k[2])) = 1

\* C8 as stated: the archive of a key holds as many records as update calls
\* were performed on the key, updates that found no active record included.
C8_ArchiveCountsEveryUpdate ==
  \A k \in SemKeys : Cardinality(ArchivedOf(k)) = Cardinality(UpdatesOn(k))

\* C8 amended: the archive of a key holds as many records as update calls
\* on the key found an active record and had their archive insert succeed
\* (the insert raises on a store error or when that record is already in the
\* archive); an update that finds no active record behaves as create and
\* archives nothing, and whether the deactivation or the create that follows
\* the archive insert succeeds makes no difference.
C8_ArchiveCountsUpdatesOfActive ==
  \A k \in SemKeys : Cardinality(ArchivedOf(k)) = Cardinality(UpdatesThatArchived(k))

\* an update that behaved as create, one that archived and then failed in
\* its create, and two archive records for the key
C8_Witness ==
  \E k \in SemKeys :
    /\ UpdatesOn(k) \ UpdatesThatFoundActive(k) # {}
    /\ \E i \in UpdatesThatArchived(k) : sem_history[i].raised
    /\ Cardinality(ArchivedOf(k)) = 2

\* C9: after an update call on a key that had an active record, completed
\* or failed, reading the current memory of the key returns a record, and
\* after a failed update it is the record that was active before.
C9_UpdateLeavesOneCurrent ==
  (sem_history # <<>> /\ LastCall.op = "update" /\ LastCall.found) =>
    LET cur == get_semantic_memory(semantic_memories, LastCall.key[1], LastCall.key[2])
    IN /\ cur # NoDoc
       /\ LastCall.raised => cur.id = LastCall.old_id

\* C10: the record made active by a successful update has a version greater
\* than the version of the record it supersedes.
C10_VersionIncreases ==
  (sem_history # <<>> /\ LastCall.op = "update" /\ LastCall.found /\ ~LastCall.raised)
    => LastCall.new_version > LastCall.old_version

\* C16: when the summary of a semantic memory cannot be produced, the
\* create or update call raises and leaves both collections as they were:
\* no new record, no partial effect of the operation.
C16_FailedSummaryLeavesStoreUntouched ==
  [][(/\ Len(sem_history') = Len(sem_history) + 1
      /\ sem_history'[Len(sem_history')].summary_error)
       => /\ sem_history'[Len(sem_history')].raised
          /\ semantic_memories' = semantic_memories
          /\ semantic_memories_archive' = semantic_memories_archive]_vars

(***************************************************************************)
(* Properties of execute_task (checked under ExecSpec)                     *)
(***************************************************************************)
\* the gateway calls the last execute_task made, by position
CallsMade == IF et_call.called THEN 1..et_call.out.gateway_calls ELSE {}

\* how many of the first n responses were empty
RECURSIVE EmptyAmong(_, _)
EmptyAmong(responses, n) ==
  IF n = 0 THEN 0
  ELSE EmptyAmong(responses, n - 1) + (IF responses[n] = "empty" THEN 1 ELSE 0)

\* C11 (as stated): a gateway call that fails with a transport error or a
\* rate-limit response is retried while attempts remain, and no call of
\* execute_task makes more than 3 gateway attempts.
C11_TransportAndRateLimitRetried ==
  et_call.called =>
    /\ et_call.out.gateway_calls <= MaxAttempts
    /\ \A i \in CallsMade :
         (et_call.responses[i] \in {"transport_error", "rate_limit"} /\ i < MaxAttempts)
            => i + 1 \in CallsMade

\* C11 (amended): a gateway call that fails with a rate-limit response is
\* retried while attempts remain; a call that fails with any other error
\* (a transport error) is the last one; no call of execute_task makes more
\* than 3 gateway attempts, and after the third failure it stops with the
\* in-band error.
C11_RateLimitRetriedTransportNot ==
  et_call.called =>
    /\ et_call.out.gateway_calls <= MaxAttempts
    /\ \A i \in CallsMade :
         /\ (et_call.responses[i] = "rate_limit" /\ i < MaxAttempts) => i + 1 \in CallsMade
         /\ et_call.responses[i] = "transport_error"
              => /\ i = et_call.out.gateway_calls
                 /\ et_call.out.result = "error"
         /\ (et_call.responses[i] # "text" /\ i = MaxAttempts) => et_call.out.result = "error"

\* a call whose first attempt was rate-limited and retried, and whose
\* second attempt hit a transport error and was the last
C11_Witness ==
  /\ et_call.called
  /\ et_call.out.gateway_calls = 2
  /\ et_call.responses[1] = "rate_limit"
  /\ et_call.responses[2] = "transport_error"
  /\ et_call.out.result = "error"

\* C12: execute_task never raises: it returns a string, the model's text
\* when a gateway call answered with text, and otherwise (set-up failure,
\* bad arguments, every attempt failed) the in-band error text.
C12_NeverRaises ==
  et_call.called =>
    /\ ~et_call.out.raised
    /\ et_call.out.result \in {"text", "error"}
    /\ et_call.out.result = "text"
         <=> \E i \in CallsMade : et_call.responses[i] = "text"

\* a call whose client set-up failed, and one whose arguments could not be
\* converted, both answered with the in-band error without a gateway call
C12_Witness ==
  /\ et_call.called
  /\ ~et_call.setup_ok \/ et_call.max_tokens = "dict"
  /\ et_call.out.gateway_calls = 0
  /\ et_call.out.result = "error"

\* C13 (as stated): an empty response gets exactly one retry, with the
\* prompt amended once and the temperature lowered, and execute_task gives
\* up if that retry is empty too.
C13_OneRetryOnEmpty ==
  et_call.called =>
    /\ \A i \in CallsMade : et_call.out.sent[i].amendments <= 1
    /\ \A i \in CallsMade :
         i > 1 /\ et_call.responses[i - 1] = "empty"
           => /\ et_call.out.sent[i].amendments = 1
              /\ et_call.out.sent[i].temperature = FallbackTemperature
              /\ et_call.responses[i] = "empty" => et_call.out.gateway_calls = i

\* C13 (amended): an empty response is retried while attempts of the shared
\* budget of 3 remain, so a second empty response is retried again; every
\* request carries the fallback instruction once per empty response received
\* so far (twice on the third attempt after two empty responses), and the
\* lowered temperature from the first empty response on; after the third
\* failed attempt execute_task gives up with the in-band error.
C13_EmptyRetriedWithinBudget ==
  et_call.called =>
    \A i \in CallsMade :
      /\ et_call.out.sent[i].amendments = EmptyAmong(et_call.responses, i - 1)
      /\ et_call.out.sent[i].temperature =
           (IF EmptyAmong(et_call.responses, i - 1) > 0
            THEN FallbackTemperature ELSE DefaultTemperature)
      /\ (et_call.responses[i] = "empty" /\ i < MaxAttempts) => i + 1 \in CallsMade
      /\ (et_call.responses[i] = "empty" /\ i = MaxAttempts) => et_call.out.result = "error"

\* three empty responses: three attempts, the third with the instruction
\* appended twice, then the in-band error
C13_Witness ==
  /\ et_call.called
  /\ et_call.out.gateway_calls = MaxAttempts
  /\ \A i \in 1..MaxAttempts : et_call.responses[i] = "empty"
  /\ et_call.out.sent[MaxAttempts].amendments = 2
  /\ et_call.out.sent[MaxAttempts].temperature = FallbackTemperature
  /\ et_call.out.result = "error"

(***************************************************************************)
(* Properties of episodic logging (checked under EpisodicSpec)             *)
(***************************************************************************)
ZeroVector == "zero"

LastEvent == episodic_memories[Len(episodic_memories)]

\* C14: when a gateway call of EpisodicMemory.add_event fails
\* (summarization, tag extraction or embedding) and the store accepts the
\* insert, add_event does not raise and persists exactly one record, with
\* the safe default in the field whose call failed: empty summary, empty
\* tags, zero vector.
C14_EnrichmentFailureStillPersists ==
  (last_add.called /\ last_add.path = "direct" /\ last_add.insert_ok) =>
    /\ ~last_add.raised
    /\ last_add.stored = 1
    /\ last_add.summary_failed => LastEvent.event_summary = ""
    /\ last_add.tags_failed => LastEvent.tags = <<>>
    /\ last_add.embedding_failed => LastEvent.embedding = ZeroVector

\* C15: every persisted event's full_transcript is the text the logging
\* caller supplied, on the direct path and on the hub path alike.
C15_TranscriptVerbatim ==
  \A i \in DOMAIN episodic_memories :
    episodic_memories[i].full_transcript = episodic_memories[i].supplied

(***************************************************************************)
(* Properties of retrieve_memories (checked under RetrievalSpec)           *)
(***************************************************************************)
EventsOf(cid) == {i \in DOMAIN episodic_memories : episodic_memories[i].client_id = cid}

Elements(q) == {q[i] : i \in DOMAIN q}

\* similarity of event i to the query vector of retrieval r
RawSimilarity(r, i) == Similarity(r.query_embedding, episodic_memories[i].embedding)

\* the recency-adjusted score: similarity * exp(-days_old / 30)
AdjustedScore(r, i) ==
  RawSimilarity(r, i) * Exp(-((Now - episodic_memories[i].timestamp) \div DecayDays))

\* C17: retrieve_memories returns at most top_k events, all of the given
\* client, ordered by descending adjusted_score, equal scores by
\* descending raw similarity and then by descending timestamp; when the
\* client has no stored event the result is the empty sequence.
C17_RankedByAdjustedScore ==
  \A n \in DOMAIN retrievals :
    LET r == retrievals[n] IN
    /\ Len(r.result) <= r.top_k
    /\ Elements(r.result) \subseteq EventsOf(r.client_id)
    /\ EventsOf(r.client_id) = {} => r.result = <<>>
    /\ \A i, j \in DOMAIN r.result :
         i < j =>
           LET a == r.result[i]
               b == r.result[j]
           IN \/ AdjustedScore(r, a) > AdjustedScore(r, b)
              \/ /\ AdjustedScore(r, a) = AdjustedScore(r, b)
                 /\ RawSimilarity(r, a) > RawSimilarity(r, b)
              \/ /\ AdjustedScore(r, a) = AdjustedScore(r, b)
                 /\ RawSimilarity(r, a) = RawSimilarity(r, b)
                 /\ episodic_memories[a].timestamp >= episodic_memories[b].timestamp

\* C18: the events returned are the top_k by adjusted_score among the
\* candidate pool (here the pool holds every event of the client): no
\* event left out has a greater adjusted_score than one returned, also
\* when it ranks below top_k by raw similarity.
C18_TopKByAdjustedScoreOfPool ==
  \A n \in DOMAIN retrievals :
    LET r == retrievals[n] IN
    /\ Cardinality(EventsOf(r.client_id)) >= r.top_k => Len(r.result) = r.top_k
    /\ \A a \in Elements(r.result) : \A x \in EventsOf(r.client_id) \ Elements(r.result) :
         AdjustedScore(r, a) >= AdjustedScore(r, x)

\* C19: two retrieve_memories calls with the same arguments and no write
\* between them return the same ordered sequence, also when the embedding
\* gateway is unavailable and the fallback embedding is used.
C19_IdempotentRetrieval ==
  \A m, n \in DOMAIN retrievals :
    (/\ retrievals[m].client_id = retrievals[n].client_id
     /\ retrievals[m].query = retrievals[n].query
     /\ retrievals[m].top_k = retrievals[n].top_k)
      => retrievals[m].result = retrievals[n].result

(***************************************************************************)
(* Properties of get_client_timeline (checked under TimelineSpec)          *)
(***************************************************************************)
\* C20: get_client_timeline(client_id, start, end) returns every stored
\* event of the client with start <= timestamp <= end, both boundaries
\* included, each once, no event of another client or outside the range,
\* in ascending timestamp order.
C20_TimelineInRangeAscending ==
  timeline.called =>
    /\ Elements(timeline.result) =
         {i \in EventsOf(timeline.client_id) :
            /\ timeline.start_date <= episodic_memories[i].timestamp
            /\ episodic_memories[i].timestamp <= timeline.end_date}
    /\ \A i, j \in DOMAIN timeline.result :
         i < j => /\ timeline.result[i] # timeline.result[j]
                  /\ episodic_memories[timeline.result[i]].timestamp
                       <= episodic_memories[timeline.result[j]].timestamp

\* a timeline of two events, the first stamped exactly start and the
\* second exactly end
C20_Witness ==
  /\ timeline.called
  /\ timeline.start_date < timeline.end_date
  /\ Len(timeline.result) = 2
  /\ episodic_memories[timeline.result[1]].timestamp = timeline.start_date
  /\ episodic_memories[timeline.result[2]].timestamp = timeline.end_date

(***************************************************************************)
(* The procedural store, one call at a time (ProcSpec) and with two        *)
(* callers recording executions concurrently (ProcRaceSpec)                *)
(***************************************************************************)
Learn ==
  \E cid \in ClientIds, procedure_type \in ProcedureTypes, embedding \in Vectors,
     outcome \in LearnOutcomes :
       LearnProcedure(cid, procedure_type, embedding, outcome)
         /\ UNCHANGED <<orch_vars, sem_vars, exec_vars, epi_vars,
                        report_vars, agent_vars, semrace_vars>>

SeedProcedure ==
  \E insert_ok \in BOOLEAN :
    CreateProcedure(insert_ok)
      /\ UNCHANGED <<orch_vars, sem_vars, exec_vars, epi_vars,
                     report_vars, agent_vars, semrace_vars>>

RecordExecution ==
  \E id \in 1..MaxProcedures, outcome \in Outcomes :
    RecordProcedureExecution(id, outcome)
      /\ UNCHANGED <<orch_vars, sem_vars, exec_vars, epi_vars,
                     report_vars, agent_vars, semrace_vars>>

Recommend ==
  \E cid \in ClientIds, situation_embedding \in Vectors, top_k \in TopKs :
    RecommendProcedure(cid, situation_embedding, top_k)
      /\ UNCHANGED <<orch_vars, sem_vars, exec_vars, epi_vars,
                     report_vars, agent_vars, semrace_vars>>

ProcNext == Learn \/ SeedProcedure \/ RecordExecution \/ Recommend

ProcSpec == SemInit /\ [][ProcNext]_vars

ReadForRecord ==
  \E w \in Callers, id \in 1..MaxProcedures, outcome \in Outcomes :
    ReadProcedure(w, id, outcome)
      /\ UNCHANGED <<orch_vars, sem_vars, exec_vars, epi_vars,
                     report_vars, agent_vars, semrace_vars>>

UpdateForRecord ==
  \E w \in Callers :
    UpdateProcedure(w)
      /\ UNCHANGED <<orch_vars, sem_vars, exec_vars, epi_vars,
                     report_vars, agent_vars, semrace_vars>>

ProcRaceNext == SeedProcedure \/ ReadForRecord \/ UpdateForRecord

ProcRaceSpec == SemInit /\ [][ProcRaceNext]_vars

(***************************************************************************)
(* Properties of the procedural store                                      *)
(***************************************************************************)
\* min(0.95, 0.5 + success_rate * 0.45), in the units of the stored score
ExpectedConfidence(success_rate) ==
  LET c == BaseConfidence * RateUnit + success_rate * ConfidenceSpan
  IN IF c > MaxConfidence * RateUnit THEN MaxConfidence * RateUnit ELSE c

\* successes / entries of a history, in sixtieths
RateOf(history) ==
  (RateUnit * Cardinality({i \in DOMAIN history : history[i].outcome = "success"}))
     \div Len(history)

\* C21: a record_procedure_execution call on a stored procedure appends
\* exactly one entry to its success_history, every earlier entry staying
\* in place, increases execution_count by exactly 1, sets success_rate to
\* successes / entries of the resulting history, and touches no other
\* procedure.
C21_RecordAppendsOneEntry ==
  [][(proc_call'.called /\ proc_call'.op = "record" /\ ~proc_call'.raised)
       => LET id == proc_call'.id
              before == procedural_memories[id]
              after == procedural_memories'[id]
          IN /\ Len(procedural_memories') = Len(procedural_memories)
             /\ \A j \in DOMAIN procedural_memories :
                  j # id => procedural_memories'[j] = procedural_memories[j]
             /\ after.success_history =
                  Append(before.success_history, [outcome |-> proc_call'.outcome])
             /\ after.execution_count = before.execution_count + 1
             /\ after.success_rate = RateOf(after.success_history)]_vars

\* a procedure with a success followed by a failure on record: rate 1/2
C21_Witness ==
  /\ proc_call.called
  /\ proc_call.op = "record"
  /\ ~proc_call.raised
  /\ procedural_memories[proc_call.id].success_history =
       <<[outcome |-> "success"], [outcome |-> "failure"]>>
  /\ procedural_memories[proc_call.id].execution_count = 2
  /\ 2 * procedural_memories[proc_call.id].success_rate = RateUnit

\* C22 (as stated): for every stored procedure, learned or seeded, after
\* any number of record_procedure_execution calls,
\* 0.5 <= confidence_score <= 0.95 and confidence_score equals
\* min(0.95, 0.5 + success_rate * 0.45), a missing success_rate counting 0.
C22_ConfidenceFollowsFormula ==
  \A i \in DOMAIN procedural_memories :
    LET p == procedural_memories[i] IN
    /\ BaseConfidence * RateUnit <= p.confidence_score
    /\ p.confidence_score <= MaxConfidence * RateUnit
    /\ p.confidence_score = ExpectedConfidence(Get(p, "success_rate", 0))

\* C22 (amended): for every stored procedure 0.5 <= confidence_score <=
\* 0.95; once at least one execution has been recorded confidence_score
\* equals min(0.95, 0.5 + success_rate * 0.45); before the first recorded
\* execution it is the value given at creation, 0.5 for a learned
\* procedure and 0.8 for a seeded one.
C22_ConfidenceBoundedFormulaAfterFirstRecord ==
  \A i \in DOMAIN procedural_memories :
    LET p == procedural_memories[i] IN
    /\ BaseConfidence * RateUnit <= p.confidence_score
    /\ p.confidence_score <= MaxConfidence * RateUnit
    /\ p.success_history # <<>> => p.confidence_score = ExpectedConfidence(p.success_rate)
    /\ p.success_history = <<>> =>
         p.confidence_score = (IF p.procedure_type = "standard"
                               THEN SeedConfidence * RateUnit
                               ELSE InitialConfidence * RateUnit)

\* a seeded procedure before its first execution, and another procedure
\* whose executions all failed
C22_Witness ==
  /\ \E i \in DOMAIN procedural_memories :
       /\ procedural_memories[i].procedure_type = "standard"
       /\ procedural_memories[i].success_history = <<>>
       /\ procedural_memories[i].confidence_score = SeedConfidence * RateUnit
  /\ \E i \in DOMAIN procedural_memories :
       /\ Len(procedural_memories[i].success_history) >= 2
       /\ procedural_memories[i].success_rate = 0
       /\ procedural_memories[i].confidence_score = BaseConfidence * RateUnit

\* the weight the ranking is to use: similarity * confidence_score *
\* max(success_rate, 0.5), a missing success_rate counting as unproven
ExpectedWeight(call, p) ==
  LET rate == Get(p, "success_rate", 0)
      neutral == (NeutralRate * RateUnit) \div 100
  IN Similarity(call.situation_embedding, p.embedding) * p.confidence_score
       * (IF rate > neutral THEN rate ELSE neutral)

\* C23: every procedure recommend_procedure returns carries the weighted
\* score similarity * confidence_score * max(success_rate, 0.5), and the
\* results are in descending order of it.
C23_WeightedByMaxOfRateAndHalf ==
  (proc_call.called /\ proc_call.op = "recommend") =>
    /\ \A n \in DOMAIN proc_call.result :
         proc_call.result[n].weighted_score =
           Given(ExpectedWeight(proc_call, procedural_memories[proc_call.result[n].index]))
    /\ \A m, n \in DOMAIN proc_call.result :
         m < n => ExpectedWeight(proc_call, procedural_memories[proc_call.result[m].index])
                    >= ExpectedWeight(proc_call, procedural_memories[proc_call.result[n].index])

\* C29: once no record_procedure_execution call is between its read and
\* its update, every procedure's execution_count is the length of its
\* success_history, and its success_rate and confidence_score are the
\* ones computed from that history.
C29_CountersMatchHistoryAfterRace ==
  (\A w \in Callers : pending[w] = NotGiven) =>
    \A i \in DOMAIN procedural_memories :
      LET p == procedural_memories[i] IN
      /\ p.execution_count = Len(p.success_history)
      /\ p.success_history # <<>> =>
           /\ p.success_rate = RateOf(p.success_history)
           /\ p.confidence_score = ExpectedConfidence(RateOf(p.success_history))

(***************************************************************************)
(* Report assembly on its own (ReportSpec): a results dict filled in any   *)
(* order, then generate_report.                                            *)
(***************************************************************************)
AddResult ==
  \E k \in ResultKeys, v \in ResultTexts :
    InsertResult(k, v)
      /\ UNCHANGED <<orch_vars, sem_vars, exec_vars, epi_vars, proc_vars, agent_vars,
                     semrace_vars>>

Report ==
  \E write_ok \in BOOLEAN :
    GenerateReport(write_ok)
      /\ UNCHANGED <<orch_vars, sem_vars, exec_vars, epi_vars, proc_vars, agent_vars,
                     semrace_vars>>

ReportNext == AddResult \/ Report

ReportSpec == SemInit /\ [][ReportNext]_vars

\* the section order the report is to have
ExpectedHeaders ==
  <<"Risk Assessment", "Portfolio Analysis", "Tax Optimization Opportunities",
    "Market Research & Trends", "Financial Planning", "Compliance Review">>

ExpectedSection ==
  [k \in ResultKeys |->
     CASE k = "risk_assessment" -> 1
       [] k = "portfolio_analysis" -> 2
       [] k = "tax_optimization" -> 3
       [] k = "market_research" -> 4
       [] k = "financial_plan" -> 5
       [] OTHER -> 6]

\* C24: a generated report has the six sections Risk, Portfolio, Tax,
\* Market, Planning, Compliance in that order whatever the order in which
\* the results were inserted; the section of every stored result holds
\* exactly that result, the error text of a failed phase included; and
\* generate_report raises only when writing the output file fails, never
\* because of what a phase stored.
C24_SixSectionsInFixedOrder ==
  report.called =>
    /\ report.raised <=> ~report.write_ok
    /\ ~report.raised =>
         /\ [n \in DOMAIN report.sections |-> report.sections[n].header] = ExpectedHeaders
         /\ \A i \in DOMAIN report_results :
              report.sections[ExpectedSection[report_results[i][1]]].body
                = report_results[i][2]

\* the six results inserted in execution order, tax optimisation failed
C24_Witness ==
  /\ report.called
  /\ ~report.raised
  /\ report_results = <<<<"market_research", "text">>, <<"risk_assessment", "text">>,
                        <<"portfolio_analysis", "text">>, <<"financial_plan", "text">>,
                        <<"tax_optimization", "error">>, <<"compliance_review", "text">>>>
  /\ report.sections[3] = [header |-> "Tax Optimization Opportunities", body |-> "error"]

(***************************************************************************)
(* Further properties of comprehensive_analysis (checked under Spec)       *)
(***************************************************************************)
EarlierResultKeys == {ResultKey[p] : p \in 1..(NumPhases - 1)}

C26_NoStoreNoStart ==
  db_type = "none" => /\ runs = 0
                      /\ pc = "idle"
                      /\ invoked = <<>>

CallAgent ==
  /\ ~agent_call.called
  /\ \E p \in 1..NumPhases, cd \in ClientData, setup_ok \in BOOLEAN,
        responses \in [1..MaxAttempts -> GatewayResponses], store_ok \in BOOLEAN,
        log_outcome \in LogOutcomes :
       AgentMethod(p, cd, cd.profile_user_id, setup_ok, responses, store_ok, log_outcome)
         /\ UNCHANGED <<orch_vars, sem_vars, exec_vars, epi_vars, proc_vars, report_vars,
                        semrace_vars>>

AgentNext == CallAgent

AgentSpec == Init /\ [][AgentNext]_vars

\* C27: for each of the six agent methods, when the gateway is set up and
\* answers the first attempt with non-empty text, the agent's execute_task
\* call reaches the gateway and both its result and the phase result are
\* exactly that text.
C27_AgentResultIsGatewayText ==
  (agent_call.called /\ agent_call.setup_ok /\ agent_call.responses[1] = "text") =>
    /\ agent_call.gateway_calls >= 1
    /\ agent_call.task_result = "text"
    /\ agent_call.result = "text"

(***************************************************************************)
(* Two update_semantic_memory calls interleaved (SemRaceSpec)              *)
(***************************************************************************)
SeedMemory ==
  \E c \in ClientIds, t \in MemoryTypes, d \in DataValues :
    SeedSemanticMemory(c, t, d)
      /\ UNCHANGED <<orch_vars, exec_vars, epi_vars, proc_vars, report_vars, agent_vars>>

UpdateRead ==
  \E w \in Callers, c \in ClientIds, t \in MemoryTypes, d \in DataValues :
    ReadActive(w, c, t, d)
      /\ UNCHANGED <<orch_vars, exec_vars, epi_vars, proc_vars, report_vars, agent_vars>>

UpdateArchive ==
  \E w \in Callers :
    InsertArchiveCopy(w)
      /\ UNCHANGED <<orch_vars, exec_vars, epi_vars, proc_vars, report_vars, agent_vars>>

UpdateDeactivate ==
  \E w \in Callers :
    DeactivateOld(w)
      /\ UNCHANGED <<orch_vars, exec_vars, epi_vars, proc_vars, report_vars, agent_vars>>

UpdateCreate ==
  \E w \in Callers :
    InsertNew(w)
      /\ UNCHANGED <<orch_vars, exec_vars, epi_vars, proc_vars, report_vars, agent_vars>>

SemRaceNext == SeedMemory \/ UpdateRead \/ UpdateArchive \/ UpdateDeactivate \/ UpdateCreate

SemRaceSpec == SemInit /\ [][SemRaceNext]_vars

\* how many archive entries are copies of the record with this _id
ArchiveCopies(id) ==
  Cardinality({i \in DOMAIN semantic_memories_archive :
                 semantic_memories_archive[i].id = id})

\* C28: once two update_semantic_memory calls on the same (client_id,
\* memory_type) that started with a record of the key stored have both
\* finished, in whatever order their store operations were interleaved,
\* neither has failed, exactly one record of the key is active, and every
\* record of the key that is no longer active is in the archive exactly
\* once.
C28_InterleavedUpdatesKeepOneActive ==
  (/\ \A w \in Callers : Finished(updaters[w])
   /\ \A v, w \in Callers : updaters[v].key = updaters[w].key
   /\ \E w \in Callers : updaters[w].current # NoDoc) =>
    LET key == updaters[CHOOSE w \in Callers : TRUE].key IN
    /\ \A w \in Callers : updaters[w].pc = "done"
    /\ Cardinality(ActiveIndexes(semantic_memories, key[1], key[2])) = 1
    /\ \A i \in DOMAIN semantic_memories :
         (/\ semantic_memories[i].client_id = key[1]
          /\ semantic_memories[i].memory_type = key[2]
          /\ ~semantic_memories[i].is_active)
           => ArchiveCopies(semantic_memories[i].id) = 1

====
